---- MODULE Spec2Model ----
(***************************************************************************)
(* Merkle tree of src/src/lib.rs: merkle_root, merkle_proof, verify_proof. *)
(*                                                                         *)
(* Strings are modelled as terms.  A Rust String is one of                 *)
(*   [str  |-> a]          a caller-supplied short text ("a", "b", ...)    *)
(*   [hash |-> s]          hex::encode(Blake2b512(s)), a 128-character     *)
(*                         digest of the string s                          *)
(*   [l |-> x, r |-> y]    x.clone() + y, the concatenation of x and y     *)
(* Blake2b512 is modelled as collision-free: two digests are equal exactly *)
(* when the hashed strings are equal.  The concatenation of two digests is *)
(* an ordinary string, so a leaf may hold it: leaves and inner nodes are   *)
(* hashed by the same function, without any domain separation.             *)
(***************************************************************************)
EXTENDS Integers, Sequences, FiniteSets

\* Bounds of the model.
MaxLeaves == 5
MaxIndex == 8

Atoms == {"a", "b"}

VARIABLES
    leaves,          \* the caller's leaf sequence (argument of merkle_root / merkle_proof)
    other,           \* a second leaf sequence handed to merkle_root
    leaf_index,      \* argument of merkle_proof
    pc,              \* "idle" | "root_loop" | "proof_loop" | "verify_loop"
    target,          \* which argument the running merkle_root works on: "leaves" | "other"
    hashed_leaves,   \* local of merkle_root / merkle_proof: the current level
    index,           \* local of merkle_proof / verify_proof
    proof,           \* local of merkle_proof: the proof under construction
    root_outcome,    \* "none" | "ok" | "panic_unwrap_on_none"
    ret_root,        \* value returned by merkle_root(leaves)
    other_outcome,   \* outcome of merkle_root(other)
    other_root,      \* value returned by merkle_root(other)
    proof_outcome,   \* "none" | "ok" | "panic_index_out_of_bounds"
    ret_proof,       \* value returned by merkle_proof(leaves, leaf_index)
    vroot,           \* argument root of verify_proof
    vproof,          \* argument proof of verify_proof
    hash,            \* local of verify_proof
    pos,             \* position of the iterator over proof.hashes in verify_proof
    verify_outcome,  \* "none" | "returned"
    result           \* value returned by verify_proof

vars == <<leaves, other, leaf_index, pc, target, hashed_leaves, index, proof,
          root_outcome, ret_root, other_outcome, other_root, proof_outcome,
          ret_proof, vroot, vproof, hash, pos, verify_outcome, result>>

----------------------------------------------------------------------------
\* Strings

None == [none |-> TRUE]

Str(a) == [str |-> a]

\* a.clone() + b
Concat(a, b) == [l |-> a, r |-> b]

\* Faulty variant of HashHex: the hasher is finalized without the update.
HashHexNoUpdate(s) == [hash |-> Str("")]

\* hasher.update(s); hex::encode(hasher.finalize())
HashHex(s) == [hash |-> s]

RECURSIVE SeqsUpTo(_, _)
SeqsUpTo(S, n) ==
    IF n = 0 THEN {<<>>}
    ELSE LET shorter == SeqsUpTo(S, n - 1)
         IN  shorter \cup {Append(s, x) : s \in {t \in shorter : Len(t) = n - 1}, x \in S}

Items == {Str(a) : a \in Atoms}

Inputs == SeqsUpTo(Items, MaxLeaves)

----------------------------------------------------------------------------
\* The level reduction shared by merkle_root and merkle_proof

\* leaves.map(|leaf| hex::encode(Blake2b512(leaf))).collect()
HashLeaves(v) == [k \in 1..Len(v) |-> HashHex(v[k])]

\* hashed_leaves.chunks(2): the number of chunks, and chunk number c (from 0)
NumChunks(level) == (Len(level) + 1) \div 2

Chunk(level, c) ==
    IF 2 * c + 2 <= Len(level)
    THEN <<level[2 * c + 1], level[2 * c + 2]>>
    ELSE <<level[2 * c + 1]>>

\* match chunk { [a, b] => a.clone() + b, [a] => a.clone() + a }
Concatenated(chunk) ==
    IF Len(chunk) = 2 THEN Concat(chunk[1], chunk[2])
    ELSE Concat(chunk[1], chunk[1])

\* Faulty variant of NextLevel: chunks_exact(2), which drops a trailing single.
NextLevelExact(level) ==
    [c \in 1..(Len(level) \div 2) |-> HashHex(Concatenated(Chunk(level, c - 1)))]

\* one pass of the for loop over the chunks: next_level
NextLevel(level) ==
    [c \in 1..NumChunks(level) |-> HashHex(Concatenated(Chunk(level, c - 1)))]

\* the condition of the while loop
LoopCond(level) == Len(level) > 1

\* Faulty variant of PopUnwrap: pop().unwrap_or_default().
PopUnwrapOrDefault(level) ==
    IF Len(level) = 0
    THEN [outcome |-> "ok", value |-> Str("")]
    ELSE [outcome |-> "ok", value |-> level[Len(level)]]

\* hashed_leaves.pop().unwrap()
PopUnwrap(level) ==
    IF Len(level) = 0
    THEN [outcome |-> "panic_unwrap_on_none", value |-> None]
    ELSE [outcome |-> "ok", value |-> level[Len(level)]]

----------------------------------------------------------------------------
\* merkle_root

Init ==
    /\ leaves \in Inputs
    /\ other = <<>>
    /\ leaf_index = 0
    /\ pc = "idle"
    /\ target = "leaves"
    /\ hashed_leaves = <<>>
    /\ index = 0
    /\ proof = None
    /\ root_outcome = "none"
    /\ ret_root = None
    /\ other_outcome = "none"
    /\ other_root = None
    /\ proof_outcome = "none"
    /\ ret_proof = None
    /\ vroot = None
    /\ vproof = None
    /\ hash = None
    /\ pos = 0
    /\ verify_outcome = "none"
    /\ result = FALSE

\* The caller invokes merkle_root(leaves): the leaves are hashed into level 0.
CallMerkleRoot ==
    /\ pc = "idle"
    /\ root_outcome = "none"
    /\ hashed_leaves' = HashLeaves(leaves)
    /\ target' = "leaves"
    /\ pc' = "root_loop"
    /\ UNCHANGED <<leaves, other, leaf_index, index, proof, root_outcome, ret_root,
                   other_outcome, other_root, proof_outcome, ret_proof, vroot,
                   vproof, hash, pos, verify_outcome, result>>

\* The caller invokes merkle_root on a second leaf sequence (as a caller does
\* that compares the commitments of two data sets).
CallMerkleRootOther ==
    /\ pc = "idle"
    /\ root_outcome = "ok"
    /\ other_outcome = "none"
    /\ proof_outcome = "none"
    /\ \E l2 \in Inputs :
          /\ other' = l2
          /\ hashed_leaves' = HashLeaves(l2)
    /\ target' = "other"
    /\ pc' = "root_loop"
    /\ UNCHANGED <<leaves, leaf_index, index, proof, root_outcome, ret_root,
                   other_outcome, other_root, proof_outcome, ret_proof, vroot,
                   vproof, hash, pos, verify_outcome, result>>

\* One iteration of the while loop of merkle_root.
RootLoop ==
    /\ pc = "root_loop"
    /\ LoopCond(hashed_leaves)
    /\ hashed_leaves' = NextLevel(hashed_leaves)
    /\ UNCHANGED <<leaves, other, leaf_index, pc, target, index, proof,
                   root_outcome, ret_root, other_outcome, other_root,
                   proof_outcome, ret_proof, vroot, vproof, hash, pos,
                   verify_outcome, result>>

\* The loop of merkle_root is left: hashed_leaves.pop().unwrap() is returned,
\* or panics on an empty vector.
RootReturn ==
    /\ pc = "root_loop"
    /\ ~LoopCond(hashed_leaves)
    /\ LET r == PopUnwrap(hashed_leaves)
       IN  IF target = "leaves"
           THEN /\ root_outcome' = r.outcome
                /\ ret_root' = r.value
                /\ UNCHANGED <<other_outcome, other_root>>
           ELSE /\ other_outcome' = r.outcome
                /\ other_root' = r.value
                /\ UNCHANGED <<root_outcome, ret_root>>
    /\ hashed_leaves' = <<>>
    /\ pc' = "idle"
    /\ UNCHANGED <<leaves, other, leaf_index, target, index, proof,
                   proof_outcome, ret_proof, vroot, vproof, hash, pos,
                   verify_outcome, result>>

----------------------------------------------------------------------------
\* merkle_proof

\* Faulty variant of IndexClone: leaves[0].clone().
IndexCloneFirst(v, i) ==
    IF i < Len(v)
    THEN [outcome |-> "ok", value |-> v[1]]
    ELSE [outcome |-> "panic_index_out_of_bounds", value |-> None]

\* Faulty variant of IndexClone: leaves.get(leaf_index).cloned().unwrap_or_default().
IndexCloneOrDefault(v, i) ==
    IF i < Len(v)
    THEN [outcome |-> "ok", value |-> v[i + 1]]
    ELSE [outcome |-> "ok", value |-> Str("")]

\* leaves[leaf_index].clone(): indexing a Vec panics out of bounds
IndexClone(v, i) ==
    IF i < Len(v)
    THEN [outcome |-> "ok", value |-> v[i + 1]]
    ELSE [outcome |-> "panic_index_out_of_bounds", value |-> None]

\* Faulty variant of Sibling: the first element of the chunk, whatever the parity.
SiblingAlwaysFirst(chunk, idx) == chunk[1]

\* the match that picks the sibling of the tracked node in its chunk
Sibling(chunk, idx) ==
    IF Len(chunk) = 2 /\ idx % 2 = 0 THEN chunk[2]
    ELSE IF Len(chunk) = 2 /\ idx % 2 = 1 THEN chunk[1]
    ELSE chunk[1]

\* Faulty variant of Pushed: the chunk is picked by i == index, not i == index / 2.
PushedNoHalving(level, idx) ==
    IF idx < NumChunks(level)
    THEN <<Sibling(Chunk(level, idx), idx)>>
    ELSE <<>>

\* what one pass over the chunks pushes on proof.hashes: the sibling in the
\* chunk whose number is index / 2, when the level has such a chunk
Pushed(level, idx) ==
    IF idx \div 2 < NumChunks(level)
    THEN <<Sibling(Chunk(level, idx \div 2), idx)>>
    ELSE <<>>

\* The caller invokes merkle_proof(leaves, i): the proof is initialised, which
\* indexes leaves[i], and the leaves are hashed into level 0.
CallMerkleProof ==
    /\ pc = "idle"
    /\ proof_outcome = "none"
    /\ other_outcome = "none"
    /\ \E i \in 0..MaxIndex :
          LET c == IndexClone(leaves, i)
          IN  /\ leaf_index' = i
              /\ IF c.outcome = "ok"
                 THEN /\ proof' = [hashes |-> <<>>,
                                   num_of_leaves |-> Len(leaves),
                                   leaf_index |-> i,
                                   leaf_content |-> c.value]
                      /\ hashed_leaves' = HashLeaves(leaves)
                      /\ index' = i
                      /\ pc' = "proof_loop"
                      /\ UNCHANGED proof_outcome
                 ELSE /\ proof_outcome' = c.outcome
                      /\ UNCHANGED <<proof, hashed_leaves, index, pc>>
    /\ UNCHANGED <<leaves, other, target, root_outcome, ret_root, other_outcome,
                   other_root, ret_proof, vroot, vproof, hash, pos,
                   verify_outcome, result>>

\* One iteration of the while loop of merkle_proof.
ProofLoop ==
    /\ pc = "proof_loop"
    /\ LoopCond(hashed_leaves)
    /\ proof' = [proof EXCEPT !.hashes = @ \o Pushed(hashed_leaves, index)]
    /\ hashed_leaves' = NextLevel(hashed_leaves)
    /\ index' = index \div 2
    /\ UNCHANGED <<leaves, other, leaf_index, pc, target, root_outcome, ret_root,
                   other_outcome, other_root, proof_outcome, ret_proof, vroot,
                   vproof, hash, pos, verify_outcome, result>>

\* The loop of merkle_proof is left: the proof is returned.
ProofReturn ==
    /\ pc = "proof_loop"
    /\ ~LoopCond(hashed_leaves)
    /\ ret_proof' = proof
    /\ proof_outcome' = "ok"
    /\ proof' = None
    /\ hashed_leaves' = <<>>
    /\ index' = 0
    /\ pc' = "idle"
    /\ UNCHANGED <<leaves, other, leaf_index, target, root_outcome, ret_root,
                   other_outcome, other_root, vroot, vproof, hash, pos,
                   verify_outcome, result>>

----------------------------------------------------------------------------
\* verify_proof

\* the concatenation order chosen by the parity of index
Combine(h, sibling_hash, idx) ==
    IF idx % 2 = 0 THEN Concat(h, sibling_hash) ELSE Concat(sibling_hash, h)

Range(s) == {s[k] : k \in 1..Len(s)}

\* every digest of the tree above a level
RECURSIVE TreeNodes(_)
TreeNodes(level) ==
    IF LoopCond(level)
    THEN Range(level) \cup TreeNodes(NextLevel(level))
    ELSE Range(level)

\* The strings a caller of verify_proof puts in place of a digest or of the
\* leaf content: the digests of the tree and of the items, the items, and the
\* concatenations of two leaf digests.
DigestPool(v) == TreeNodes(HashLeaves(v)) \cup {HashHex(x) : x \in Items}

ConcatPool(v) == {Concat(x, y) : x \in Range(HashLeaves(v)), y \in Range(HashLeaves(v))}

ContentPool(v) == Items \cup ConcatPool(v)

\* The arguments handed to verify_proof for a root r and a proof p that
\* merkle_root and merkle_proof returned: r and p themselves, and r and p with
\* one part replaced.
VerifyInputs(v, r, p) ==
    LET n == Len(p.hashes)
    IN  {<<r, p>>}
        \cup {<<r, [p EXCEPT !.leaf_content = c]>> : c \in ContentPool(v) \ {p.leaf_content}}
        \cup {<<r, [p EXCEPT !.hashes[kd[1]] = kd[2]]>> :
                 kd \in {x \in (1..n) \X DigestPool(v) : x[2] # p.hashes[x[1]]}}
        \cup {<<d, p>> : d \in DigestPool(v) \ {r}}
        \cup {<<r, [p EXCEPT !.leaf_index = j]>> : j \in (0..MaxIndex) \ {p.leaf_index}}
        \cup {<<r, [p EXCEPT !.num_of_leaves = m]>> : m \in (1..MaxLeaves) \ {p.num_of_leaves}}
        \cup {<<r, [p EXCEPT !.hashes = @ \o <<d>>]>> : d \in DigestPool(v)}
        \cup {<<r, [p EXCEPT !.hashes = SubSeq(@, 1, n - 1)]>> : k \in {n} \ {0}}
        \cup {<<r, [p EXCEPT !.hashes = Tail(@),
                             !.leaf_index = @ \div 2,
                             !.leaf_content = c]>> : c \in {x \in ConcatPool(v) : n > 0}}

\* The caller invokes verify_proof(&root, &proof): the leaf content is hashed.
CallVerifyProof ==
    /\ pc = "idle"
    /\ verify_outcome = "none"
    /\ root_outcome = "ok"
    /\ proof_outcome = "ok"
    /\ \E a \in VerifyInputs(leaves, ret_root, ret_proof) :
          /\ vroot' = a[1]
          /\ vproof' = a[2]
          /\ hash' = HashHex(a[2].leaf_content)
          /\ index' = a[2].leaf_index
    /\ pos' = 1
    /\ pc' = "verify_loop"
    /\ UNCHANGED <<leaves, other, leaf_index, target, hashed_leaves, proof,
                   root_outcome, ret_root, other_outcome, other_root,
                   proof_outcome, ret_proof, verify_outcome, result>>

\* One iteration of the for loop over proof.hashes.
VerifyLoop ==
    /\ pc = "verify_loop"
    /\ pos <= Len(vproof.hashes)
    /\ hash' = HashHex(Combine(hash, vproof.hashes[pos], index))
    /\ index' = index \div 2
    /\ pos' = pos + 1
    /\ UNCHANGED <<leaves, other, leaf_index, pc, target, hashed_leaves, proof,
                   root_outcome, ret_root, other_outcome, other_root,
                   proof_outcome, ret_proof, vroot, vproof, verify_outcome,
                   result>>

\* The siblings are consumed: *root == hash is returned.
VerifyReturn ==
    /\ pc = "verify_loop"
    /\ pos > Len(vproof.hashes)
    /\ result' = (vroot = hash)
    /\ verify_outcome' = "returned"
    /\ pc' = "idle"
    /\ UNCHANGED <<leaves, other, leaf_index, target, hashed_leaves, index,
                   proof, root_outcome, ret_root, other_outcome, other_root,
                   proof_outcome, ret_proof, vroot, vproof, hash, pos>>

Next ==
    \/ CallMerkleRoot
    \/ CallMerkleRootOther
    \/ RootLoop
    \/ RootReturn
    \/ CallMerkleProof
    \/ ProofLoop
    \/ ProofReturn
    \/ CallVerifyProof
    \/ VerifyLoop
    \/ VerifyReturn

Spec == Init /\ [][Next]_vars

\* The reduction loops alone, with the fairness of a sequential program: a
\* call that can take its next step takes it.
NextLoops ==
    \/ CallMerkleRoot
    \/ RootLoop
    \/ RootReturn
    \/ CallMerkleProof
    \/ ProofLoop
    \/ ProofReturn

LoopSpec == Init /\ [][NextLoops]_vars /\ WF_vars(NextLoops)

----------------------------------------------------------------------------
\* Properties

\* ceil(log2(n)), 0 for n <= 1: the height of a tree over n leaves
RECURSIVE CeilLog2(_)
CeilLog2(n) == IF n <= 1 THEN 0 ELSE 1 + CeilLog2((n + 1) \div 2)

Returned == verify_outcome = "returned"

Generated == root_outcome = "ok" /\ proof_outcome = "ok"

\* verify_proof was called on exactly what merkle_root and merkle_proof returned
Untouched == vroot = ret_root /\ vproof = ret_proof

\* the proof handed to verify_proof differs from the returned one in its
\* leaf_content only, in exactly one entry of hashes only, or not at all while
\* the root differs
LeafContentChanged ==
    /\ vroot = ret_root
    /\ vproof.leaf_content # ret_proof.leaf_content
    /\ vproof = [ret_proof EXCEPT !.leaf_content = vproof.leaf_content]

OneSiblingChanged ==
    /\ vroot = ret_root
    /\ Len(vproof.hashes) = Len(ret_proof.hashes)
    /\ Cardinality({k \in 1..Len(vproof.hashes) : vproof.hashes[k] # ret_proof.hashes[k]}) = 1
    /\ vproof = [ret_proof EXCEPT !.hashes = vproof.hashes]

RootChanged == vroot # ret_root /\ vproof = ret_proof

LeafIndexChanged ==
    /\ vroot = ret_root
    /\ vproof.leaf_index # ret_proof.leaf_index
    /\ vproof = [ret_proof EXCEPT !.leaf_index = vproof.leaf_index]

PairwiseDistinct(v) == \A j, k \in 1..Len(v) : j # k => v[j] # v[k]

\* C1: proof round-trip.  For every non-empty leaf sequence and every valid
\* index, verify_proof on the root returned by merkle_root and the proof
\* returned by merkle_proof returns true.
C1_RoundTrip == (Returned /\ Untouched) => result = TRUE

C1_Witness ==
    /\ Returned /\ Untouched /\ result = TRUE
    /\ Len(leaves) = 5 /\ leaf_index = 4

\* C2: tamper detection.  With a collision-free hash, verify_proof returns
\* false when exactly one of the leaf content, one sibling digest, or the root
\* was changed to a different value.
C2_TamperDetected ==
    (Returned /\ (LeafContentChanged \/ OneSiblingChanged \/ RootChanged))
        => result = FALSE

C2_Witness ==
    /\ Returned /\ OneSiblingChanged /\ result = FALSE
    /\ Len(leaves) = 5 /\ vproof.hashes[3] # ret_proof.hashes[3]

\* C3: the root commits to the entire ordered leaf sequence.  Two different
\* non-empty leaf sequences have different roots.
C3_RootCommits ==
    (root_outcome = "ok" /\ other_outcome = "ok" /\ other # leaves)
        => other_root # ret_root

\* C4: verify_proof returns false for every proof whose number of sibling
\* digests differs from the tree height implied by its num_of_leaves.
C4_SiblingCountChecked ==
    (Returned /\ Len(vproof.hashes) # CeilLog2(vproof.num_of_leaves))
        => result = FALSE

\* C5: a proof with a mismatched position is rejected.  For pairwise distinct
\* items, the returned proof with only leaf_index replaced by another value
\* (in range or not) makes verify_proof return false.
C5_MismatchedIndexRejected ==
    (Returned /\ LeafIndexChanged /\ PairwiseDistinct(leaves)) => result = FALSE

\* C6: proof shape.  The returned proof holds exactly ceil(log2(len)) sibling
\* digests (none for one leaf): one is recorded at each level of the
\* reduction, bottom to top.
C6_ProofShape ==
    /\ pc = "proof_loop" =>
          Len(proof.hashes) = CeilLog2(Len(leaves)) - CeilLog2(Len(hashed_leaves))
    /\ proof_outcome = "ok" => Len(ret_proof.hashes) = CeilLog2(Len(leaves))

C6_Witness == proof_outcome = "ok" /\ Len(leaves) = 5 /\ Len(ret_proof.hashes) = 3

\* C7: the returned proof carries the index asked for, the original unhashed
\* item at that index, and the number of leaves.
C7_ProofFields ==
    proof_outcome = "ok" =>
        /\ ret_proof.leaf_index = leaf_index
        /\ ret_proof.leaf_content = leaves[leaf_index + 1]
        /\ ret_proof.num_of_leaves = Len(leaves)

C7_Witness ==
    /\ proof_outcome = "ok" /\ leaf_index = 1 /\ Len(leaves) = 5
    /\ ret_proof.leaf_content = Str("b") /\ leaves[1] = Str("a")

C10_LoopTerminates ==
    /\ [][(RootLoop \/ ProofLoop) =>
            /\ Len(hashed_leaves) > 1
            /\ Len(hashed_leaves') = (Len(hashed_leaves) + 1) \div 2
            /\ Len(hashed_leaves') < Len(hashed_leaves)
            /\ Len(hashed_leaves') >= 1]_vars
    /\ [][(RootReturn /\ leaves # <<>>) =>
            /\ Len(hashed_leaves) = 1
            /\ ret_root' = hashed_leaves[1]]_vars
    /\ [][ProofReturn =>
            /\ Len(hashed_leaves) = 1
            /\ root_outcome = "ok" => hashed_leaves[1] = ret_root]_vars
    /\ (pc = "root_loop") ~> (pc = "idle" /\ root_outcome # "none")
    /\ (pc = "proof_loop") ~> (pc = "idle" /\ proof_outcome = "ok")

C10_Witness == pc = "idle" /\ Generated /\ Len(leaves) = 5

====
